---- MODULE Spec2Model ----
(***************************************************************************)
(* TortoiseCRUDRouter (fastapi_crudrouter/core/tortoise.py): the six       *)
(* request handlers get_all, get_one, create, update, delete_all and       *)
(* delete_one, run against the tables of the databases that using_db can   *)
(* select.  A handler suspends at every awaited database call, so a        *)
(* handler with two awaited queries is two steps; one step is one awaited  *)
(* query together with the synchronous code around it.                     *)
(*                                                                         *)
(* The ORM is not part of the repository.  Its calls are modelled by what  *)
(* the handlers use them for: all() is every row of the table of the       *)
(* chosen connection, filter(id=i) the rows with primary key i, first()    *)
(* the first of them or nothing, offset/limit the usual window,            *)
(* order_by(f) ascending by f ("-f" descending), count() the number of     *)
(* rows, update() an assignment of the given columns, delete()            *)
(* the removal of the selected rows, save() an insert.  Rows without an    *)
(* ORDER BY come in primary-key order and ties of an ORDER BY are broken   *)
(* by primary key.  The ORM is taken to accept the arguments the handlers  *)
(* pass to it.                                                             *)
(***************************************************************************)
EXTENDS Integers, Sequences, FiniteSets, TLC

\* ------------------------------------------------------------- bounds
MaxId == 2          \* primary keys are 1..MaxId
MaxSkip == 1        \* skip is 0..MaxSkip
MaxLimit == 2       \* a present limit is 0..MaxLimit

Ids == 1..MaxId
DBs == {"db1", "db2"}            \* connection handles
PathParams == {"t1", "t2"}       \* values of request.path_params
Slots == {"r1", "r2"}            \* requests the host serves at a time
Fields == {"name", "tag"}        \* the columns besides the primary key
FieldValues == {0, 1}
Rows == [Fields -> FieldValues]

\* Optional values: None is the empty tuple, a present value v is <<v>>.
None == <<>>
Some(v) == <<v>>

VARIABLES
    using_db,             \* self.using_db, fixed at construction
    paginationextradata,  \* self.paginationextradata, fixed at construction
    store,                \* store[db]: primary key -> row, the table on connection db
    reqs,                 \* reqs[s]: the request served in slot s
    gone,                 \* history: gone[db] = ids removed by a completed delete-one, not created since
    wiped                 \* history: dbs on which delete-all ran with no create since

vars == <<using_db, paginationextradata, store, reqs, gone, wiped>>

\* ------------------------------------------------- construction (__init__)
\* using_db is None, a static handle, or a callable of the path parameters.
\* "resolver" is a callable that is a function of the path parameters; each
\* call returns the handle itself or a coroutine that yields it.
\* "unpinned" is a callable whose calls may differ for the same parameters
\* (a replica picker, a connection opened per call).
UsingDbKinds == {"none", "static", "resolver", "unpinned"}

\* The connection the ORM uses for using_db=None.
DefaultDB == "db1"
\* The handle of a static using_db.
StaticDB == "db2"
\* What the resolver returns for each path parameter value.
ResolverMap == [p \in PathParams |-> IF p = "t1" THEN "db1" ELSE "db2"]

callable(u) == u \in {"resolver", "unpinned"}

\* (mutation) a resolver call that is not given the request's parameters.
CallResolverNoParams(path) ==
    {[coroutine |-> c, value |-> ResolverMap["t1"]] : c \in BOOLEAN}

\* self.using_db called with request.path_params: the values the call may
\* produce, each a handle or a coroutine that yields one.
CallResolver(path) ==
    IF using_db = "unpinned"
    THEN {[coroutine |-> c, value |-> d] : c \in BOOLEAN, d \in DBs}
    ELSE {[coroutine |-> c, value |-> ResolverMap[path]] : c \in BOOLEAN}

\* `if asyncio.coroutines.iscoroutine(using_db): using_db = await using_db`:
\* a coroutine is awaited for the handle it yields, a handle is kept.
AwaitIfCoroutine(r) == r.value

\* The handles the first lines of every handler may end with.
ResolveUsingDb(path) ==
    IF ~callable(using_db)
    THEN {IF using_db = "none" THEN DefaultDB ELSE StaticDB}
    ELSE {AwaitIfCoroutine(r) : r \in CallResolver(path)}

\* ------------------------------------------------------------- the ORM
Item(id, row) == [id |-> id, name |-> row["name"], tag |-> row["tag"]]

\* Model.all(using_db=db)
all(db) == {Item(i, store[db][i]) : i \in DOMAIN store[db]}

SortKey(sortby, it) ==
    CASE sortby = "name" -> it.name
      [] sortby = "-id" -> 0 - it.id
      [] OTHER -> it.id

Before(sortby, a, b) ==
    \/ SortKey(sortby, a) < SortKey(sortby, b)
    \/ SortKey(sortby, a) = SortKey(sortby, b) /\ a.id < b.id

RECURSIVE order_by(_, _)
order_by(S, sortby) ==
    IF S = {} THEN <<>>
    ELSE LET m == CHOOSE x \in S : \A y \in S \ {x} : Before(sortby, x, y)
         IN <<m>> \o order_by(S \ {m}, sortby)

offset(q, n) == SubSeq(q, n + 1, Len(q))

limit(q, n) == SubSeq(q, 1, IF n < Len(q) THEN n ELSE Len(q))

\* Python truth of an Optional[int] and of an Optional[str].
TruthyInt(o) == o # None /\ o[1] # 0
TruthyStr(o) == o # None /\ o[1] # ""

\* (mutation) the lookup without its filter: the first row of the table.
first_of_any(db, item_id) ==
    IF DOMAIN store[db] # {}
    THEN LET i == CHOOSE j \in DOMAIN store[db] : \A k \in DOMAIN store[db] : j <= k
         IN <<Item(i, store[db][i])>>
    ELSE <<>>

\* filter(id=item_id).using_db(db).first(), then schema.from_tortoise_orm:
\* the item as a one-element tuple, or the empty tuple for no row.
first(db, item_id) ==
    IF item_id \in DOMAIN store[db] THEN <<Item(item_id, store[db][item_id])>> ELSE <<>>

\* (mutation) a full replace: the fields the body leaves out are reset.
update_rows_replace(tbl, item_id, fields) ==
    [i \in DOMAIN tbl |->
        IF i = item_id
        THEN [f \in Fields |-> IF f \in DOMAIN fields THEN fields[f] ELSE 0]
        ELSE tbl[i]]

\* filter(id=item_id).update() with the given fields, on a table.
update_rows(tbl, item_id, fields) ==
    [i \in DOMAIN tbl |->
        IF i = item_id
        THEN [f \in Fields |-> IF f \in DOMAIN fields THEN fields[f] ELSE tbl[i][f]]
        ELSE tbl[i]]

\* (mutation) a delete whose filter matches no row.
delete_by_id_missed(tbl, item_id) == tbl

\* (mutation) a delete without its filter.
delete_by_id_unfiltered(tbl, item_id) == [i \in {} |-> tbl[i]]

\* filter(id=item_id).delete(): the table without the row item_id.
delete_by_id(tbl, item_id) == [i \in DOMAIN tbl \ {item_id} |-> tbl[i]]

\* (mutation) a delete of the first row only.
delete_first_row(tbl) ==
    [i \in {j \in DOMAIN tbl : \E k \in DOMAIN tbl : k < j} |-> tbl[i]]

\* all().delete(): the table without its rows.
delete_every_row(tbl) == [i \in {} |-> tbl[i]]

\* save() of a new row under primary key id.
save(tbl, id, row) == [i \in DOMAIN tbl \cup {id} |-> IF i = id THEN row ELSE tbl[i]]

\* ------------------------------------------------------------ requests
Pagination == [skip : 0..MaxSkip,
               limit : {None} \cup {Some(n) : n \in 0..MaxLimit},
               sortby : {None, Some("name"), Some("-id")}]

\* An update body: the fields the client set (model.dict(exclude_unset=True)).
UpdateBodies == UNION {[D -> FieldValues] : D \in (SUBSET Fields) \ {{}}}

NoPagination == [skip |-> 0, limit |-> None, sortby |-> None]
NoBody == [f \in {} |-> 0]

\* The requests explored.  Without a callable using_db the path parameters
\* are never read and one table is in use: every item id, pagination
\* triple, row and update body is tried.  With a callable two tables are in
\* use, and the requests are drawn from a smaller set (rows of every id are
\* still created, listed and deleted).
PathInputs == IF callable(using_db) THEN PathParams ELSE {"t1"}
IdInputs == IF callable(using_db) THEN {1} ELSE Ids
PaginationInputs ==
    IF callable(using_db)
    THEN {NoPagination, [skip |-> 1, limit |-> Some(1), sortby |-> None]}
    ELSE Pagination
CreateInputs ==
    IF callable(using_db) THEN {[f \in Fields |-> 0]} ELSE Rows
UpdateInputs ==
    IF callable(using_db) THEN {[f \in {"name"} |-> 1]} ELSE UpdateBodies

\* A request: its inputs (kind, path, item_id, pagination, body), the
\* handler's locals (using_db, model), its position pc and its response
\* (status, items, paged, count).  queried, existed and race are history:
\* the handles its queries used, whether update's row existed at the write,
\* and what other requests did to that row since the write.
IdleReq == [kind |-> "none", pc |-> "idle", path |-> "t1", item_id |-> 0,
            pagination |-> NoPagination, body |-> NoBody,
            using_db |-> "", queried |-> {}, model |-> <<>>,
            status |-> "none", items |-> <<>>, paged |-> FALSE, count |-> 0,
            existed |-> FALSE, race |-> "none"]

NewReq(kind, path) == [IdleReq EXCEPT !.kind = kind, !.path = path]

\* A slot takes a new request when it serves none; a finished handler's
\* response leaves (respond) before any handler runs on.
Quiet == \A t \in Slots : reqs[t].pc # "done"
Free(s) == Quiet /\ reqs[s].pc = "idle"
At(s, pc) == Quiet /\ reqs[s].pc = pc

\* History of the updates that wait for their re-read while slot s takes a
\* step that removed the rows `removed` of db and inserted the rows `added`.
Observe(rs, s, db, removed, added) ==
    [t \in Slots |->
        IF t # s /\ rs[t].pc = "reread"
        THEN [rs[t] EXCEPT !.race =
                IF rs[t].using_db = db /\ rs[t].item_id \in removed THEN "deleted"
                ELSE IF rs[t].using_db = db /\ rs[t].item_id \in added
                          /\ @ \in {"deleted", "recreated"} THEN "recreated"
                ELSE IF @ = "none" THEN "other"
                ELSE @]
        ELSE rs[t]]

\* The parameters without a default of the routes that handlers call, and
\* the keyword arguments the nested calls pass: a call that leaves a
\* required parameter out raises TypeError.
GetAllRouteRequired == {"request"}
GetOneRouteRequired == {"request", "item_id"}
DeleteAllNestedArgs == {"pagination"}
UpdateNestedArgs == {"item_id", "request"}
DeleteOneNestedArgs == {"item_id", "request"}
Binds(required, supplied) == required \subseteq supplied

\* The query of get_all's route: order, offset, limit.
ListQuery(db, skip, lim, sortby) ==
    LET q == IF TruthyStr(sortby)
             THEN offset(order_by(all(db), sortby[1]), skip)
             ELSE offset(order_by(all(db), "id"), skip)
    IN IF TruthyInt(lim) THEN limit(q, lim[1]) ELSE q

\* (mutation) the count taken of the windowed query.
CountQueryOfWindow(db, skip, lim) == Len(ListQuery(db, skip, lim, None))

\* The count query of the extra-metadata mode.
CountQuery(db, skip, lim) == Cardinality(all(db))

\* ------------------------------------------------------------- get_all
get_all(s, path, pag) ==
    /\ Free(s)
    /\ \E db \in ResolveUsingDb(path) :
        reqs' = Observe([reqs EXCEPT ![s] =
            [NewReq("get_all", path) EXCEPT
                !.pagination = pag,
                !.using_db = db,
                !.queried = {db},
                !.items = ListQuery(db, pag.skip, pag.limit, pag.sortby),
                !.paged = paginationextradata,
                !.pc = IF paginationextradata THEN "count" ELSE "done",
                !.status = IF paginationextradata THEN "pending" ELSE "ok"]],
            s, db, {}, {})
    /\ UNCHANGED <<using_db, paginationextradata, store, gone, wiped>>

\* `"count": await count` of the extra-metadata mode.
get_all_count(s) ==
    /\ At(s, "count")
    /\ reqs' = Observe([reqs EXCEPT
            ![s].count = CountQuery(reqs[s].using_db, reqs[s].pagination.skip,
                                    reqs[s].pagination.limit),
            ![s].pc = "done",
            ![s].status = "ok"],
            s, reqs[s].using_db, {}, {})
    /\ UNCHANGED <<using_db, paginationextradata, store, gone, wiped>>

\* ------------------------------------------------------------- get_one
get_one(s, path, item_id) ==
    /\ Free(s)
    /\ \E db \in ResolveUsingDb(path) :
        LET model == first(db, item_id) IN
        reqs' = Observe([reqs EXCEPT ![s] =
            [NewReq("get_one", path) EXCEPT
                !.item_id = item_id,
                !.using_db = db,
                !.queried = {db},
                !.items = model,
                !.pc = "done",
                !.status = IF model # <<>> THEN "ok" ELSE "NOT_FOUND"]],
            s, db, {}, {})
    /\ UNCHANGED <<using_db, paginationextradata, store, gone, wiped>>

\* -------------------------------------------------------------- create
\* The primary key is the server's or the client's choice: any key that no
\* row of the table has.
create(s, path, row) ==
    /\ Free(s)
    /\ \E db \in ResolveUsingDb(path) :
       \E id \in Ids \ DOMAIN store[db] :
        /\ store' = [store EXCEPT ![db] = save(@, id, row)]
        /\ reqs' = Observe([reqs EXCEPT ![s] =
            [NewReq("create", path) EXCEPT
                !.item_id = id,
                !.body = row,
                !.using_db = db,
                !.queried = {db},
                !.items = <<Item(id, row)>>,
                !.pc = "done",
                !.status = "ok"]],
            s, db, {}, {id})
        /\ gone' = [gone EXCEPT ![db] = @ \ {id}]
        /\ wiped' = wiped \ {db}
    /\ UNCHANGED <<using_db, paginationextradata>>

\* -------------------------------------------------------------- update
\* `await ...filter(id=item_id).using_db(using_db).update(...)`
update_write(s, path, item_id, body) ==
    /\ Free(s)
    /\ \E db \in ResolveUsingDb(path) :
        /\ store' = [store EXCEPT ![db] = update_rows(@, item_id, body)]
        /\ reqs' = Observe([reqs EXCEPT ![s] =
            [NewReq("update", path) EXCEPT
                !.item_id = item_id,
                !.body = body,
                !.using_db = db,
                !.queried = {db},
                !.existed = item_id \in DOMAIN store[db],
                !.pc = "reread"]],
            s, db, {}, {})
    /\ UNCHANGED <<using_db, paginationextradata, gone, wiped>>

\* `return await self._get_one()(item_id=item_id, request=request)`: the
\* nested route resolves using_db again from the request.
update_get_one(s) ==
    /\ At(s, "reread")
    /\ \E db \in ResolveUsingDb(reqs[s].path) :
        LET model == first(db, reqs[s].item_id)
            bound == Binds(GetOneRouteRequired, UpdateNestedArgs) IN
        reqs' = Observe([reqs EXCEPT
            ![s].queried = IF bound THEN @ \cup {db} ELSE @,
            ![s].items = IF bound THEN model ELSE <<>>,
            ![s].pc = "done",
            ![s].status = IF ~bound THEN "TypeError"
                          ELSE IF model # <<>> THEN "ok" ELSE "NOT_FOUND"],
            s, db, {}, {})
    /\ UNCHANGED <<using_db, paginationextradata, store, gone, wiped>>

\* ---------------------------------------------------------- delete_all
\* `await self.db_model.all(using_db=using_db).delete(using_db=using_db)`,
\* then `self._get_all()(pagination={"skip": 0, "limit": None})`, a call
\* that gives the route no request.
delete_all(s, path) ==
    /\ Free(s)
    /\ \E db \in ResolveUsingDb(path) :
        LET bound == Binds(GetAllRouteRequired, DeleteAllNestedArgs)
            after == [store EXCEPT ![db] = delete_every_row(@)] IN
        /\ store' = after
        /\ reqs' = Observe([reqs EXCEPT ![s] =
            [NewReq("delete_all", path) EXCEPT
                !.using_db = db,
                !.queried = {db},
                !.items = IF bound
                          THEN offset(order_by({Item(i, after[db][i]) : i \in DOMAIN after[db]}, "id"), 0)
                          ELSE <<>>,
                !.pc = "done",
                !.status = IF bound THEN "ok" ELSE "TypeError"]],
            s, db, DOMAIN store[db], {})
        /\ wiped' = wiped \cup {db}
    /\ UNCHANGED <<using_db, paginationextradata, gone>>

\* ---------------------------------------------------------- delete_one
\* `model = await self._get_one()(item_id=item_id, request=request)`: the
\* handler resolves using_db, and the nested route resolves it again.
delete_one_get_one(s, path, item_id) ==
    /\ Free(s)
    /\ \E db \in ResolveUsingDb(path) :
       \E nested \in ResolveUsingDb(path) :
        LET model == first(nested, item_id)
            bound == Binds(GetOneRouteRequired, DeleteOneNestedArgs) IN
        reqs' = Observe([reqs EXCEPT ![s] =
            [NewReq("delete_one", path) EXCEPT
                !.item_id = item_id,
                !.using_db = db,
                !.queried = IF bound THEN {nested} ELSE {},
                !.model = IF bound THEN model ELSE <<>>,
                !.pc = IF bound /\ model # <<>> THEN "delete" ELSE "done",
                !.status = IF ~bound THEN "TypeError"
                           ELSE IF model # <<>> THEN "pending" ELSE "NOT_FOUND"]],
            s, db, {}, {})
    /\ UNCHANGED <<using_db, paginationextradata, store, gone, wiped>>

\* `await ...filter(id=item_id).using_db(using_db).delete()`; `return model`
delete_one_delete(s) ==
    /\ At(s, "delete")
    /\ LET db == reqs[s].using_db
           id == reqs[s].item_id IN
        /\ store' = [store EXCEPT ![db] = delete_by_id(@, id)]
        /\ reqs' = Observe([reqs EXCEPT
                ![s].queried = @ \cup {db},
                ![s].items = reqs[s].model,
                ![s].pc = "done",
                ![s].status = "ok"],
                s, db, {id} \cap DOMAIN store[db], {})
        /\ gone' = [gone EXCEPT ![db] = @ \cup {id}]
    /\ UNCHANGED <<using_db, paginationextradata, wiped>>

\* The host sends the response of a finished handler; the slot is free.
respond(s) ==
    /\ reqs[s].pc = "done"
    /\ reqs' = [reqs EXCEPT ![s] = IdleReq]
    /\ UNCHANGED <<using_db, paginationextradata, store, gone, wiped>>

\* ------------------------------------------------------ specifications
EmptyStore == [d \in DBs |-> [i \in {} |-> [f \in Fields |-> 0]]]

Start(kinds, extra) ==
    /\ using_db \in kinds
    /\ paginationextradata \in extra
    /\ store = EmptyStore
    /\ reqs = [s \in Slots |-> IdleReq]
    /\ gone = [d \in DBs |-> {}]
    /\ wiped = {}

\* The steps of the handlers in slot s, but for the count query.
Handlers(s) ==
    \/ \E path \in PathInputs, pag \in PaginationInputs : get_all(s, path, pag)
    \/ \E path \in PathInputs, item_id \in IdInputs : get_one(s, path, item_id)
    \/ \E path \in PathInputs, row \in CreateInputs : create(s, path, row)
    \/ \E path \in PathInputs, item_id \in IdInputs, body \in UpdateInputs :
          update_write(s, path, item_id, body)
    \/ update_get_one(s)
    \/ \E path \in PathInputs : delete_all(s, path)
    \/ \E path \in PathInputs, item_id \in IdInputs : delete_one_get_one(s, path, item_id)
    \/ delete_one_delete(s)
    \/ respond(s)

\* One request at a time; using_db is None, a static handle or a resolver
\* that is a function of the path parameters.
Init == Start({"none", "static", "resolver"}, BOOLEAN)
Next == Handlers("r1") \/ get_all_count("r1")
Spec == Init /\ [][Next]_vars

\* Two requests at a time, their steps interleaved; a resolver, and the
\* extra-metadata mode off (no request waits for a count query).
InitConc == Start({"resolver"}, {FALSE})
NextConc == \E s \in Slots : Handlers(s)
SpecConc == InitConc /\ [][NextConc]_vars

\* One request at a time with a resolver whose calls may differ.
InitUnpinned == Start({"unpinned"}, BOOLEAN)
SpecUnpinned == InitUnpinned /\ [][Next]_vars

\* -------------------------------------------------------------- claims
Table(db) == store[db]
RowCount(db) == Cardinality(DOMAIN store[db])
Min(a, b) == IF a < b THEN a ELSE b
Max(a, b) == IF a < b THEN b ELSE a
\* Slot s takes the step that moves it from position `from` to position `to`.
Moves(s, from, to) == reqs[s].pc = from /\ reqs'[s].pc = to
\* Every table but the one of db is left as it is.
OthersUnchanged(db) == \A d \in DBs \ {db} : store'[d] = store[d]

\* C1: a delete-all request deletes every row and completes normally with
\* the result of the list path (skip=0, limit=None), an empty sequence.
C1_DeleteAllReturnsEmptyList ==
    \A s \in Slots :
        reqs[s].kind = "delete_all" /\ reqs[s].pc = "done"
        => /\ Table(reqs[s].using_db) = EmptyStore[reqs[s].using_db]
           /\ reqs[s].status = "ok"
           /\ reqs[s].items = <<>>

C3_OneHandlePerRequest ==
    \A s \in Slots : reqs[s].queried \subseteq {reqs[s].using_db}

\* C4: get-all returns, of the N items in sortby (or default) order, those
\* after the first skip, cut to the limit whenever a limit is present (0
\* included): min(L, max(0, N - skip)) items, or max(0, N - skip) with no
\* limit.
C4_WindowSize ==
    \A s \in Slots :
        reqs[s].kind = "get_all" /\ reqs[s].pc \in {"count", "done"}
        => LET n == RowCount(reqs[s].using_db)
               rest == Max(0, n - reqs[s].pagination.skip)
               lim == reqs[s].pagination.limit
           IN Len(reqs[s].items) = IF lim # None THEN Min(lim[1], rest) ELSE rest

\* C5: in the extra-metadata mode get-all returns {results, count} with
\* count the number of rows of the resolved database, whatever skip, limit
\* and sortby are, and results the window the mode-off get-all returns.
C5_CountIsTotal ==
    \A s \in Slots :
        reqs[s].kind = "get_all" /\ reqs[s].pc = "done"
        => /\ reqs[s].paged = paginationextradata
           /\ reqs[s].paged => reqs[s].count = RowCount(reqs[s].using_db)
           /\ reqs[s].items = ListQuery(reqs[s].using_db, reqs[s].pagination.skip,
                                        reqs[s].pagination.limit,
                                        reqs[s].pagination.sortby)

C5_Witness ==
    \E s \in Slots :
        /\ reqs[s].kind = "get_all" /\ reqs[s].pc = "done" /\ reqs[s].paged
        /\ reqs[s].count = MaxId
        /\ Len(reqs[s].items) = 1
        /\ reqs[s].pagination.limit = Some(1)

\* C6: an update of an existing item sets exactly the fields of the body,
\* keeps the item's other fields and every other item, adds and removes no
\* row, and answers with the item as stored after the update.
C6_PartialUpdate ==
    [][\A s \in Slots :
        /\ Moves(s, "idle", "reread") /\ reqs'[s].existed
           => LET db == reqs'[s].using_db
                  id == reqs'[s].item_id
                  body == reqs'[s].body
              IN /\ DOMAIN store'[db] = DOMAIN store[db]
                 /\ \A i \in DOMAIN store[db] : \A f \in Fields :
                       store'[db][i][f] =
                          IF i = id /\ f \in DOMAIN body THEN body[f] ELSE store[db][i][f]
                 /\ OthersUnchanged(db)
        /\ Moves(s, "reread", "done") /\ reqs[s].existed
           => /\ reqs'[s].status = "ok"
              /\ reqs'[s].items = <<Item(reqs[s].item_id,
                                         store[reqs[s].using_db][reqs[s].item_id])>>
              /\ store' = store]_vars

C6_Witness ==
    \E s \in Slots :
        /\ reqs[s].kind = "update" /\ reqs[s].pc = "done" /\ reqs[s].status = "ok"
        /\ \E f \in Fields \ DOMAIN reqs[s].body : reqs[s].items[1][f] = 1
        /\ \E f \in DOMAIN reqs[s].body : reqs[s].body[f] = 0
        /\ RowCount(reqs[s].using_db) = MaxId

\* C7: once a delete-one of id i has returned successfully, every later
\* retrieve-one of i on that database signals NOT_FOUND until an item with
\* id i is created again, and the delete leaves every other item as it was,
\* so that retrieve-one still returns it.
C7_DeletedIsNotFound ==
    [][\A s \in Slots :
        /\ Moves(s, "idle", "done") /\ reqs'[s].kind = "get_one"
           => LET db == reqs'[s].using_db
                  id == reqs'[s].item_id
              IN /\ id \in gone[db] => reqs'[s].status = "NOT_FOUND"
                 /\ id \in DOMAIN store[db]
                      => /\ reqs'[s].status = "ok"
                         /\ reqs'[s].items = <<Item(id, store[db][id])>>
        /\ Moves(s, "delete", "done")
           => LET db == reqs[s].using_db
                  id == reqs[s].item_id
              IN /\ reqs'[s].status = "ok"
                 /\ id \in gone'[db]
                 /\ \A i \in Ids \ {id} :
                       /\ i \in DOMAIN store'[db] <=> i \in DOMAIN store[db]
                       /\ i \in DOMAIN store[db] => store'[db][i] = store[db][i]
                 /\ OthersUnchanged(db)]_vars

C7_Witness ==
    \E s \in Slots :
        /\ reqs[s].kind = "get_one" /\ reqs[s].pc = "done"
        /\ reqs[s].item_id \in gone[reqs[s].using_db]
        /\ reqs[s].status = "NOT_FOUND"
        /\ RowCount(reqs[s].using_db) = MaxId - 1

\* C8: with a resolver from path parameters to handles, in every
\* interleaving, a request whose path parameters resolve to database A
\* queries A only and answers from the rows of A, and only a step of such a
\* request changes A.
C8_TenantIsolation ==
    /\ [](\A s \in Slots : reqs[s].queried \subseteq {ResolverMap[reqs[s].path]})
    /\ [][\A s \in Slots :
            LET a == ResolverMap[reqs'[s].path]
                id == reqs'[s].item_id
                row == IF id \in DOMAIN store[a] THEN <<Item(id, store[a][id])>> ELSE <<>>
            IN /\ Moves(s, "idle", "done") /\ reqs'[s].kind = "get_one"
                  => reqs'[s].items = row
               /\ Moves(s, "reread", "done") => reqs'[s].items = row
               /\ Moves(s, "idle", "delete") => reqs'[s].model = row
               /\ Moves(s, "idle", "done") /\ reqs'[s].kind = "get_all"
                  => \A i \in 1..Len(reqs'[s].items) :
                        /\ reqs'[s].items[i].id \in DOMAIN store[a]
                        /\ reqs'[s].items[i] =
                              Item(reqs'[s].items[i].id, store[a][reqs'[s].items[i].id])]_vars
    /\ [][\A d \in DBs :
            store'[d] # store[d]
            => \E s \in Slots : /\ reqs'[s].pc # reqs[s].pc
                                /\ ResolverMap[reqs'[s].path] = d
                                /\ OthersUnchanged(d)]_vars

C8_Witness ==
    /\ reqs["r1"].pc = "reread" /\ reqs["r2"].pc = "delete"
    /\ ResolverMap[reqs["r1"].path] # ResolverMap[reqs["r2"].path]
    /\ reqs["r1"].existed
    /\ \A d \in DBs : RowCount(d) > 0

\* C9: delete-one reads before it deletes.  For an id with a row it returns
\* the item as it was before the deletion and removes that row alone; for
\* an id with no row it signals NOT_FOUND, issues no delete and leaves the
\* store as it was.
C9_DeleteOneReadsFirst ==
    [][\A s \in Slots :
        /\ Moves(s, "idle", "done") /\ reqs'[s].kind = "delete_one"
           => /\ reqs'[s].item_id \notin DOMAIN store[reqs'[s].using_db]
              /\ reqs'[s].status = "NOT_FOUND"
              /\ store' = store
        /\ Moves(s, "idle", "delete")
           => /\ reqs'[s].item_id \in DOMAIN store[reqs'[s].using_db]
              /\ store' = store
        /\ Moves(s, "delete", "done")
           => LET db == reqs[s].using_db
                  id == reqs[s].item_id
              IN /\ id \in DOMAIN store[db]
                 /\ reqs'[s].status = "ok"
                 /\ reqs'[s].items = <<Item(id, store[db][id])>>
                 /\ DOMAIN store'[db] = DOMAIN store[db] \ {id}
                 /\ \A i \in DOMAIN store'[db] : store'[db][i] = store[db][i]
                 /\ OthersUnchanged(db)]_vars

C9_Witness ==
    \E s \in Slots :
        /\ reqs[s].kind = "delete_one" /\ reqs[s].pc = "done" /\ reqs[s].status = "ok"
        /\ reqs[s].items[1].id \notin DOMAIN store[reqs[s].using_db]
        /\ reqs[s].items[1].name = 1
        /\ RowCount(reqs[s].using_db) = MaxId - 1

\* C10 as stated: an update whose row a concurrent delete removed between
\* the write and the re-read ends with NOT_FOUND and no row of that id is
\* left; an update of an existing id that no request interleaves with does
\* not end with NOT_FOUND.
C10_DeleteBetweenIsNotFound ==
    [][\A s \in Slots :
        Moves(s, "reread", "done")
        => /\ reqs[s].race \in {"deleted", "recreated"}
              => /\ reqs'[s].status = "NOT_FOUND"
                 /\ reqs[s].item_id \notin DOMAIN store'[reqs[s].using_db]
           /\ reqs[s].race = "none" /\ reqs[s].existed
              => reqs'[s].status = "ok"]_vars

\* C10 amended: an update whose row a concurrent delete removed between
\* the write and the re-read, with no create of that id after the delete and
\* before the re-read, ends with NOT_FOUND and no row of that id is left; an
\* update of an existing id that no request interleaves with does not end
\* with NOT_FOUND.
C10_DeleteBetweenNotRecreated ==
    [][\A s \in Slots :
        Moves(s, "reread", "done")
        => /\ reqs[s].race = "deleted"
              => /\ reqs'[s].status = "NOT_FOUND"
                 /\ reqs[s].item_id \notin DOMAIN store'[reqs[s].using_db]
           /\ reqs[s].race = "none" /\ reqs[s].existed
              => reqs'[s].status = "ok"]_vars

C10_Witness ==
    \E s \in Slots :
        /\ reqs[s].kind = "update" /\ reqs[s].pc = "done"
        /\ reqs[s].existed /\ reqs[s].race = "deleted"
        /\ reqs[s].status = "NOT_FOUND"

====
